---- MODULE Spec2Model ----
(***************************************************************************)
(* Model of the rplidar streaming scripts.                                 *)
(*                                                                         *)
(*   stream_scans.py  - rate-limited snapshot stream (the main machine)    *)
(*   log_lidar_pi.py  - filter_lidar_scan and its insertion sort           *)
(*                                                                         *)
(* Units: angles are whole degrees, distances whole sensor units and wall  *)
(* clock time is counted in ticks, TicksPerSecond ticks to the second, so  *)
(* that seconds_per_scan = 1.0 / rate is the whole number                  *)
(* TicksPerSecond \div rate for every rate the model draws.  A tick is     *)
(* 1/8 s and the rates drawn are powers of two, so every time the script   *)
(* computes is exactly representable in binary floating point and the      *)
(* whole-number arithmetic of the model is the script's arithmetic.        *)
(* The "time", "x" and "y" fields of a measurement are write-only in the   *)
(* scripts and are left out of the measurement records.                    *)
(***************************************************************************)
EXTENDS Integers, Sequences, FiniteSets, TLC

\* ---------------------------------------------------------------- bounds
\* largest number of ticks time.time() advances between two reads
MaxStep == 3
\* largest -n/--number drawn
MaxNumber == 2
\* longest scan handed to filter_lidar_scan
MaxScanLen == 3

\* ------------------------------------------------------------- constants
TicksPerSecond == 8
NotExited == -1
Irregular == -1

\* ------------------------------------------------------- input alphabets
\* the command line the other ones are varied from
BaseArgs ==
    [rate |-> 2, number |-> 1, min_angle |-> 10, max_angle |-> 20,
     min_distance |-> 50, max_distance |-> 200, forward_angle |-> 0,
     spin_reverse |-> FALSE]

\* every command line that differs from BaseArgs in at most one option
Configs ==
    {[BaseArgs EXCEPT !.rate = v] : v \in {0, 4, 8}}
    \cup {[BaseArgs EXCEPT !.number = v] : v \in 0..MaxNumber}
    \cup {[BaseArgs EXCEPT !.min_angle = v] : v \in {-1, 0, 30, 361}}
    \cup {[BaseArgs EXCEPT !.max_angle = v] : v \in {0, 360, 361}}
    \cup {[BaseArgs EXCEPT !.min_distance = v] : v \in {-1, 0, 150}}
    \cup {[BaseArgs EXCEPT !.max_distance = v] : v \in {0, 100}}
    \cup {[BaseArgs EXCEPT !.forward_angle = v] : v \in {-1, 330, 360, 361}}
    \cup {[BaseArgs EXCEPT !.spin_reverse = v] : v \in BOOLEAN}

\* ticks by which time.time() advances from one read to the next
Delays == 2..MaxStep

\* what the sensor feed yields
RawAngles == {15, 345}
Distances == {100}

\* the feed and the scans the filter is exercised on
WideAngles == {-725, -360, -345, 0, 5, 10, 15, 20, 25, 90, 345, 360, 375, 735}
WideForwardAngles == {0, 1, 90, 330, 359, 360}
WideDistances == {49, 50, 100, 200, 201}
ScanAngles == {5, 10, 15, 20, 25}
ScanDistances == {50, 100, 201}

VARIABLES
    args,               \* parsed command line (argparse namespace)
    pc,                 \* position of the script
    lidar,              \* "None", "connected" or "released"
    stdout,             \* tokens printed so far
    snapshot,           \* payload of the last printed {"scan": ...}
    exit_status,        \* process exit status, NotExited while running
    cause,              \* why the loop was left
    new_scan, angle, distance,      \* loop variables of the current pull
    measurement_buffer, measurement_count, measurement_index,
    scan_time, scan_count, overall_index, full_scan_count, full_scan_index,
    now,
    lidar_scan,         \* log_lidar_pi: the scan handed to filter_lidar_scan
    sorted,             \* log_lidar_pi: its sorted argument
    filtered_data,      \* log_lidar_pi: the "scan" list it returned
    period,             \* history: 0 before the first clock read, p while
                        \* every read came p ticks after the one before,
                        \* Irregular afterwards
    longest_rotation,   \* history: most measurements admitted in one rotation
    frozen_count        \* history: measurement_count as the last rotation
                        \* boundary set it

vars == <<args, pc, lidar, stdout, snapshot, exit_status, cause,
          new_scan, angle, distance,
          measurement_buffer, measurement_count, measurement_index,
          scan_time, scan_count, overall_index, full_scan_count,
          full_scan_index, now, period, lidar_scan, sorted, filtered_data,
          longest_rotation, frozen_count>>

callVars == <<lidar_scan, sorted, filtered_data>>

loopVars == <<measurement_buffer, measurement_count, measurement_index,
              scan_time, scan_count, overall_index, full_scan_count,
              full_scan_index, now, period, longest_rotation, frozen_count>>

pullVars == <<new_scan, angle, distance>>

\* ------------------------------------------------------------ pure parts
Max(a, b) == IF a >= b THEN a ELSE b

\* python's a[:n] for 0 <= n
Slice(a, n) == SubSeq(a, 1, IF n <= Len(a) THEN n ELSE Len(a))

Count(s, tok) == Cardinality({i \in 1..Len(s) : s[i] = tok})

\* stream_scans.py 35-55: the list of complaints is non-empty
HelpNeeded(a) ==
    \/ a.rate < 1
    \/ a.number < 1
    \/ a.min_distance < 0
    \/ a.max_distance <= 0
    \/ a.min_angle < 0 \/ a.min_angle > 360
    \/ a.max_angle <= 0 \/ a.max_angle > 360
    \/ a.forward_angle < 0 \/ a.forward_angle > 360

\* stream_scans.py 72
seconds_per_scan == TicksPerSecond \div args.rate

\* variant: the forward offset is subtracted without wrapping
Transform_NoWrap(raw, spin_reverse, forward_angle) ==
    LET a1 == IF spin_reverse THEN (360 - (raw % 360)) % 360 ELSE raw
    IN  a1 - forward_angle

\* variant: the spin flag is ignored
Transform_NoSpin(raw, spin_reverse, forward_angle) ==
    (raw - forward_angle + 360) % 360

\* stream_scans.py 95-100
Transform(raw, spin_reverse, forward_angle) ==
    LET a1 == IF spin_reverse THEN (360 - (raw % 360)) % 360 ELSE raw
    IN  (a1 - forward_angle + 360) % 360

\* variant: the upper angle bound is exclusive
Admits_ExclusiveMax(a, d, cfg) ==
    /\ a >= cfg.min_angle /\ a < cfg.max_angle
    /\ d >= cfg.min_distance /\ d <= cfg.max_distance

\* stream_scans.py 103-104
Admits(a, d, cfg) ==
    /\ a >= cfg.min_angle /\ a <= cfg.max_angle
    /\ d >= cfg.min_distance /\ d <= cfg.max_distance

\* variant: the record's index is the running index, not the index
\* within the scan
Measurement_RunningIndex(a, d) ==
    [scan |-> full_scan_count, index |-> overall_index,
     overall |-> overall_index, distance |-> d, angle |-> a]

\* stream_scans.py 110-119
Measurement(a, d) ==
    [scan |-> full_scan_count, index |-> full_scan_index,
     overall |-> overall_index, distance |-> d, angle |-> a]

\* variant: every write appends
BufferWrite_AlwaysAppend(buf, idx, m) == Append(buf, m)

\* stream_scans.py 121-125: the buffer after the write
BufferWrite(buf, idx, m) ==
    IF idx >= Len(buf) THEN Append(buf, m)
    ELSE [buf EXCEPT ![idx + 1] = m]

\* variant: the count is advanced by every write
CountWrite_Always(buf, idx, cnt) == cnt + 1

\* stream_scans.py 121-125: measurement_count after the write
CountWrite(buf, idx, cnt) ==
    IF idx >= Len(buf) THEN idx + 1 ELSE cnt

\* variant: the deadline is advanced from the previous deadline
NextScanTime_FromDeadline(st, t, interval) == st + interval

\* stream_scans.py 133
NextScanTime(st, t, interval) == t + interval

\* variant: a poll exactly on the deadline does not fire
Due_Strict(t, st) == t > st

\* stream_scans.py 130
Due(t, st) == t >= st

\* stream_scans.py 92
StopCondition(sc, number) == sc > number

\* variant: the search stops left of equal keys (x <= key moves hi)
RECURSIVE bisect_left(_, _, _, _)
bisect_left(a, x, lo, hi) ==
    IF lo < hi
    THEN LET mid == (lo + hi) \div 2
         IN  IF x <= a[mid + 1].angle
             THEN bisect_left(a, x, lo, mid)
             ELSE bisect_left(a, x, mid + 1, hi)
    ELSE lo

\* log_lidar_pi.py 41-72, with key = lambda m: m["angle"]; a is 1-based
RECURSIVE bisect_right(_, _, _, _)
bisect_right(a, x, lo, hi) ==
    IF lo < hi
    THEN LET mid == (lo + hi) \div 2
         IN  IF x < a[mid + 1].angle
             THEN bisect_right(a, x, lo, mid)
             ELSE bisect_right(a, x, mid + 1, hi)
    ELSE lo

\* log_lidar_pi.py 27-39: a.insert(lo, x)
insort_right(a, x) ==
    LET lo == bisect_right(a, x.angle, 0, Len(a))
    IN  SubSeq(a, 1, lo) \o <<x>> \o SubSeq(a, lo + 1, Len(a))

\* log_lidar_pi.py 90-91
ScanAdmits(a, d, cfg) ==
    /\ a >= cfg.min_angle /\ a <= cfg.max_angle
    /\ d >= cfg.min_distance /\ d <= cfg.max_distance

\* log_lidar_pi.py 76-106: the "scan" list built from the first n elements
RECURSIVE filter_lidar_scan(_, _, _, _)
filter_lidar_scan(scan, n, cfg, srt) ==
    IF n = 0 THEN <<>>
    ELSE LET done == filter_lidar_scan(scan, n - 1, cfg, srt)
             a == scan[n][2]
             d == scan[n][3]
             m == [distance |-> d, angle |-> a]
         IN  IF ScanAdmits(a, d, cfg)
             THEN IF srt THEN insort_right(done, m) ELSE Append(done, m)
             ELSE done

\* ------------------------------------------------------------------ Init
Init ==
    /\ args \in Configs
    /\ pc = "validate"
    /\ lidar = "None"
    /\ stdout = <<>>
    /\ snapshot = <<>>
    /\ exit_status = NotExited
    /\ cause = "none"
    /\ new_scan = FALSE /\ angle = 0 /\ distance = 0
    /\ measurement_buffer = <<>>
    /\ measurement_count = 0
    /\ measurement_index = 0
    /\ scan_time = 0
    /\ scan_count = 0
    /\ overall_index = 0
    /\ full_scan_count = 0
    /\ full_scan_index = 0
    /\ now = 0
    /\ period = 0
    /\ lidar_scan = <<>>
    /\ sorted = FALSE
    /\ filtered_data = <<>>
    /\ longest_rotation = 0
    /\ frozen_count = 0

\* --------------------------------------------------------------- actions
\* stream_scans.py 35-61: argument validation, sys.exit(1) on complaint
Validate ==
    /\ pc = "validate"
    /\ IF HelpNeeded(args)
       THEN /\ stdout' = Append(stdout, "help")
            /\ exit_status' = 1
            /\ cause' = "usage"
            /\ pc' = "done"
       ELSE /\ pc' = "connect"
            /\ UNCHANGED <<stdout, exit_status, cause>>
    /\ UNCHANGED <<args, callVars, lidar, snapshot, pullVars, loopVars>>

\* stream_scans.py 70: lidar = RPLidar(None, PORT_NAME, timeout=3)
Connect ==
    /\ pc = "connect"
    /\ lidar' = "connected"
    /\ pc' = "setup"
    /\ UNCHANGED <<args, callVars, stdout, snapshot, exit_status, cause, pullVars,
                   loopVars>>

\* stream_scans.py 70: the constructor raises, lidar stays None
ConnectFail ==
    /\ pc = "connect"
    /\ stdout' = Append(stdout, "error")
    /\ exit_status' = 1
    /\ cause' = "Exception"
    /\ pc' = "finally"
    /\ UNCHANGED <<args, callVars, lidar, snapshot, pullVars, loopVars>>

\* stream_scans.py 72-83: print("[") and the loop state
Setup ==
    /\ pc = "setup"
    /\ stdout' = Append(stdout, "[")
    /\ measurement_buffer' = <<>>
    /\ measurement_count' = 0
    /\ measurement_index' = 0
    /\ scan_time' = now + seconds_per_scan
    /\ scan_count' = 0
    /\ overall_index' = 0
    /\ full_scan_count' = 0
    /\ full_scan_index' = 0
    /\ pc' = "pull"
    /\ UNCHANGED <<args, callVars, lidar, snapshot, exit_status, cause,
                   pullVars, now, period, longest_rotation, frozen_count>>

\* stream_scans.py 84: the iterator yields the next measurement
PullFrom(angles, distances) ==
    /\ pc = "pull"
    /\ \E ns \in BOOLEAN, raw \in angles, d \in distances :
          /\ new_scan' = ns
          /\ angle' = raw
          /\ distance' = d
    /\ pc' = "boundary"
    /\ UNCHANGED <<args, callVars, lidar, stdout, snapshot, exit_status,
                   cause, loopVars>>

Pull == PullFrom(RawAngles, Distances)

\* variant: the handler prints the error and falls through
SensorFail_Swallowed ==
    /\ pc = "pull"
    /\ stdout' = Append(stdout, "error")
    /\ cause' = "Exception"
    /\ pc' = "finally"
    /\ UNCHANGED <<args, callVars, lidar, snapshot, exit_status, pullVars, loopVars>>

\* stream_scans.py 84, 138-140: the iterator raises; print(e); exit(1)
SensorFail ==
    /\ pc = "pull"
    /\ stdout' = Append(stdout, "error")
    /\ exit_status' = 1
    /\ cause' = "Exception"
    /\ pc' = "finally"
    /\ UNCHANGED <<args, callVars, lidar, snapshot, pullVars, loopVars>>

\* variant: the stop condition is tested at the head of the loop body and
\* skips the measurement instead of leaving the loop
Boundary_ContinueFirst ==
    /\ pc = "boundary"
    /\ IF StopCondition(scan_count, args.number)
       THEN /\ pc' = "pull"
            /\ UNCHANGED <<full_scan_count, full_scan_index,
                           measurement_count, measurement_index, frozen_count>>
       ELSE /\ pc' = "filter"
            /\ IF new_scan
               THEN /\ full_scan_count' = full_scan_count + 1
                    /\ full_scan_index' = 0
                    /\ measurement_count' = measurement_index
                    /\ measurement_index' = 0
                    /\ frozen_count' = measurement_count'
               ELSE UNCHANGED <<full_scan_count, full_scan_index,
                                measurement_count, measurement_index,
                                frozen_count>>
    /\ UNCHANGED <<args, callVars, lidar, stdout, snapshot, exit_status,
                   cause, pullVars, measurement_buffer, scan_time, scan_count,
                   overall_index, now, period, longest_rotation>>

\* variant: the boundary resets the write position but leaves the count
Boundary_NoFreeze ==
    /\ pc = "boundary"
    /\ IF new_scan
       THEN /\ full_scan_count' = full_scan_count + 1
            /\ full_scan_index' = 0
            /\ measurement_index' = 0
            /\ UNCHANGED measurement_count
            /\ frozen_count' = measurement_count'
       ELSE UNCHANGED <<full_scan_count, full_scan_index,
                        measurement_count, measurement_index, frozen_count>>
    /\ IF StopCondition(scan_count, args.number)
       THEN /\ pc' = "finally"
            /\ cause' = "break"
       ELSE /\ pc' = "filter"
            /\ UNCHANGED cause
    /\ UNCHANGED <<args, callVars, lidar, stdout, snapshot, exit_status,
                   pullVars, measurement_buffer, scan_time, scan_count,
                   overall_index, now, period, longest_rotation>>

\* variant: the write position is reset before the count is frozen
Boundary_ResetFirst ==
    /\ pc = "boundary"
    /\ IF new_scan
       THEN /\ full_scan_count' = full_scan_count + 1
            /\ full_scan_index' = 0
            /\ measurement_index' = 0
            /\ measurement_count' = measurement_index'
            /\ frozen_count' = measurement_count'
       ELSE UNCHANGED <<full_scan_count, full_scan_index,
                        measurement_count, measurement_index, frozen_count>>
    /\ IF StopCondition(scan_count, args.number)
       THEN /\ pc' = "finally"
            /\ cause' = "break"
       ELSE /\ pc' = "filter"
            /\ UNCHANGED cause
    /\ UNCHANGED <<args, callVars, lidar, stdout, snapshot, exit_status,
                   pullVars, measurement_buffer, scan_time, scan_count,
                   overall_index, now, period, longest_rotation>>

\* stream_scans.py 86-93: rotation boundary, then the stop condition
Boundary ==
    /\ pc = "boundary"
    /\ IF new_scan
       THEN /\ full_scan_count' = full_scan_count + 1
            /\ full_scan_index' = 0
            /\ measurement_count' = measurement_index
            /\ measurement_index' = 0
            /\ frozen_count' = measurement_count'
       ELSE UNCHANGED <<full_scan_count, full_scan_index,
                        measurement_count, measurement_index, frozen_count>>
    /\ IF StopCondition(scan_count, args.number)
       THEN /\ pc' = "finally"
            /\ cause' = "break"
       ELSE /\ pc' = "filter"
            /\ UNCHANGED cause
    /\ UNCHANGED <<args, callVars, lidar, stdout, snapshot, exit_status,
                   pullVars, measurement_buffer, scan_time, scan_count,
                   overall_index, now, period, longest_rotation>>

\* variant: the overall counter is advanced for rejected measurements too
Filter_CountsAll ==
    /\ pc = "filter"
    /\ LET a == Transform(angle, args.spin_reverse, args.forward_angle)
       IN  /\ angle' = a
           /\ \E dt \in Delays :
                 /\ now' = now + dt
                 /\ period' = IF period \in {0, dt} THEN dt ELSE Irregular
           /\ overall_index' = overall_index + 1
           /\ IF Admits(a, distance, args)
              THEN /\ measurement_buffer' =
                          BufferWrite(measurement_buffer, measurement_index,
                                      Measurement(a, distance))
                   /\ measurement_count' =
                          CountWrite(measurement_buffer, measurement_index,
                                     measurement_count)
                   /\ measurement_index' = measurement_index + 1
                   /\ full_scan_index' = full_scan_index + 1
                   /\ longest_rotation' =
                          Max(longest_rotation, measurement_index + 1)
              ELSE UNCHANGED <<measurement_buffer, measurement_count,
                               measurement_index, full_scan_index,
                               longest_rotation>>
    /\ pc' = "emit"
    /\ UNCHANGED <<args, callVars, lidar, stdout, snapshot, exit_status, cause,
                   new_scan, distance, scan_time, scan_count,
                   full_scan_count, frozen_count>>

\* stream_scans.py 95-128: transform, read the clock, filter, write
Filter ==
    /\ pc = "filter"
    /\ LET a == Transform(angle, args.spin_reverse, args.forward_angle)
       IN  /\ angle' = a
           /\ \E dt \in Delays :
                 /\ now' = now + dt
                 /\ period' = IF period \in {0, dt} THEN dt ELSE Irregular
           /\ IF Admits(a, distance, args)
              THEN /\ measurement_buffer' =
                          BufferWrite(measurement_buffer, measurement_index,
                                      Measurement(a, distance))
                   /\ measurement_count' =
                          CountWrite(measurement_buffer, measurement_index,
                                     measurement_count)
                   /\ measurement_index' = measurement_index + 1
                   /\ full_scan_index' = full_scan_index + 1
                   /\ overall_index' = overall_index + 1
                   /\ longest_rotation' =
                          Max(longest_rotation, measurement_index + 1)
              ELSE UNCHANGED <<measurement_buffer, measurement_count,
                               measurement_index, full_scan_index,
                               overall_index, longest_rotation>>
    /\ pc' = "emit"
    /\ UNCHANGED <<args, callVars, lidar, stdout, snapshot, exit_status, cause,
                   new_scan, distance, scan_time, scan_count,
                   full_scan_count, frozen_count>>

\* stream_scans.py 130-134: the scheduler check and the emission; the loop
\* variables are rebound by the next pull before they are read again
Emit ==
    /\ pc = "emit"
    /\ IF Due(now, scan_time)
       THEN /\ scan_count' = scan_count + 1
            /\ scan_time' = NextScanTime(scan_time, now, seconds_per_scan)
            /\ snapshot' = Slice(measurement_buffer, measurement_count)
            /\ stdout' = Append(stdout, "scan")
       ELSE UNCHANGED <<scan_count, scan_time, snapshot, stdout>>
    /\ new_scan' = FALSE /\ angle' = 0 /\ distance' = 0
    /\ pc' = "pull"
    /\ UNCHANGED <<args, callVars, lidar, exit_status, cause,
                   measurement_buffer, measurement_count, measurement_index,
                   overall_index, full_scan_count, full_scan_index, now,
                   period, longest_rotation, frozen_count>>

\* stream_scans.py 136-137: KeyboardInterrupt anywhere inside the try
Interrupt ==
    /\ pc \in {"connect", "setup", "pull", "boundary", "filter", "emit"}
    /\ stdout' = Append(stdout, "Stopping early.")
    /\ cause' = "KeyboardInterrupt"
    /\ pc' = "finally"
    /\ UNCHANGED <<args, callVars, lidar, snapshot, exit_status, pullVars, loopVars>>

\* variant: the release sits after the try statement, so exit(1) skips it
Finally_AfterTry ==
    /\ pc = "finally"
    /\ IF lidar # "None" /\ exit_status = NotExited
       THEN /\ stdout' = Append(stdout, "]")
            /\ lidar' = "released"
       ELSE UNCHANGED <<stdout, lidar>>
    /\ exit_status' = IF exit_status = NotExited THEN 0 ELSE exit_status
    /\ pc' = "done"
    /\ UNCHANGED <<args, callVars, snapshot, cause, pullVars, loopVars>>

\* stream_scans.py 141-145: the finally block, then the interpreter exits
Finally ==
    /\ pc = "finally"
    /\ IF lidar # "None"
       THEN /\ stdout' = Append(stdout, "]")
            /\ lidar' = "released"
       ELSE UNCHANGED <<stdout, lidar>>
    /\ exit_status' = IF exit_status = NotExited THEN 0 ELSE exit_status
    /\ pc' = "done"
    /\ UNCHANGED <<args, callVars, snapshot, cause, pullVars, loopVars>>

Next ==
    \/ Validate
    \/ Connect
    \/ ConnectFail
    \/ Setup
    \/ Pull
    \/ SensorFail
    \/ Boundary
    \/ Filter
    \/ Emit
    \/ Interrupt
    \/ Finally

Spec == Init /\ [][Next]_vars

\* the run with a feed that keeps yielding and nobody pressing Ctrl-C: the
\* interpreter keeps executing the next statement
NextRun ==
    \/ Validate
    \/ Connect
    \/ Setup
    \/ Pull
    \/ Boundary
    \/ Filter
    \/ Emit
    \/ Finally

SpecLive == Init /\ [][NextRun]_vars /\ WF_vars(NextRun)

\* ------------------------------------------- the filter on a wide feed
\* one pass of the stream_scans loop body over a measurement drawn from
\* the wide feed, and one call of filter_lidar_scan
ScanPoints == {<<15, a, d>> : a \in ScanAngles, d \in ScanDistances}

Scans == UNION {[1..n -> ScanPoints] : n \in 0..MaxScanLen}

\* stream_scans.py 84, on the wide feed
PullWide == PullFrom(WideAngles, WideDistances)

\* log_lidar_pi.py 187-193: filtered = filter_lidar_scan(scan, ...)
CallFilterLidarScan ==
    /\ pc = "call"
    /\ \E scan \in Scans, srt \in BOOLEAN :
          /\ lidar_scan' = scan
          /\ sorted' = srt
          /\ filtered_data' = filter_lidar_scan(scan, Len(scan), args, srt)
    /\ pc' = "returned"
    /\ UNCHANGED <<args, lidar, stdout, snapshot, exit_status, cause,
                   pullVars, loopVars>>

\* the accepted command lines, and for the stream loop also every forward
\* angle with either spin under the full window
AcceptedConfigs == {c \in Configs : ~HelpNeeded(c)}

TransformConfigs ==
    {[BaseArgs EXCEPT !.min_angle = 0, !.max_angle = 360,
                      !.forward_angle = f, !.spin_reverse = s] :
        f \in WideForwardAngles, s \in BOOLEAN}

\* the state stream_scans is in when it enters the loop (after Setup), or
\* log_lidar_pi about to filter a scan
InitFilter ==
    /\ pc \in {"pull", "call"}
    /\ args \in IF pc = "pull" THEN AcceptedConfigs \cup TransformConfigs
                ELSE AcceptedConfigs
    /\ lidar = "connected"
    /\ stdout = IF pc = "pull" THEN <<"[">> ELSE <<>>
    /\ snapshot = <<>>
    /\ exit_status = NotExited
    /\ cause = "none"
    /\ new_scan = FALSE /\ angle = 0 /\ distance = 0
    /\ measurement_buffer = <<>>
    /\ measurement_count = 0
    /\ measurement_index = 0
    /\ scan_time = IF pc = "pull" THEN seconds_per_scan ELSE 0
    /\ scan_count = 0
    /\ overall_index = 0
    /\ full_scan_count = 0
    /\ full_scan_index = 0
    /\ now = 0
    /\ period = 0
    /\ lidar_scan = <<>>
    /\ sorted = FALSE
    /\ filtered_data = <<>>
    /\ longest_rotation = 0
    /\ frozen_count = 0

NextFilter ==
    \/ PullWide
    \/ Boundary
    \/ Filter
    \/ CallFilterLidarScan

SpecFilter == InitFilter /\ [][NextFilter]_vars

\* ------------------------------------------------------------ vocabulary
InLoop == pc \in {"pull", "boundary", "filter", "emit"}

\* a "[" that no later "]" closes
FramingOpen(s) ==
    \E i \in 1..Len(s) :
        /\ s[i] = "["
        /\ \A j \in (i + 1)..Len(s) : s[j] # "]"

\* the configuration the specification asks the caller to enforce
SpecValid(a) ==
    /\ a.rate > 0
    /\ a.number >= 1
    /\ 0 <= a.min_angle /\ a.min_angle <= a.max_angle /\ a.max_angle <= 360
    /\ a.min_distance >= 0
    /\ a.max_distance > 0
    /\ 0 <= a.forward_angle /\ a.forward_angle <= 360

C1_FiringStep ==
    scan_count' = scan_count + 1 =>
        /\ scan_time' = now + seconds_per_scan
        /\ scan_time' >= scan_time + seconds_per_scan

C2_ExactlyN ==
    /\ scan_count <= args.number
    /\ (pc = "done" /\ cause = "break") => scan_count = args.number

\* ------------------------------------------------------------------- C3
\* C3: at every emission the snapshot is as long as the larger of the
\* frozen count and the write index.
C3_EmissionStep ==
    scan_count' = scan_count + 1 =>
        Len(snapshot') = Max(measurement_count, measurement_index)

C3_SnapshotLength == [][C3_EmissionStep]_vars

\* ------------------------------------------------------------------- C4
\* C4: a terminated run has no open framing and no connected sensor,
\* whichever way the loop was left.
C4_Released ==
    pc = "done" => /\ lidar # "connected"
                   /\ ~FramingOpen(stdout)

\* an interrupt in the middle of the pull cycle, after an emission
C4_Witness ==
    /\ pc = "done"
    /\ cause = "KeyboardInterrupt"
    /\ lidar = "released"
    /\ scan_count >= 1
    /\ stdout[Len(stdout)] = "]"

C5_AlignedCount ==
    (pc = "pull" /\ period \in 1..seconds_per_scan
                 /\ seconds_per_scan % period = 0
                 /\ now \div seconds_per_scan <= args.number)
        => scan_count = now \div seconds_per_scan

C5_TimelyStep ==
    (scan_count' = scan_count + 1 /\ period \in 1..seconds_per_scan)
        => now < scan_time + seconds_per_scan

C6_PollStep ==
    /\ scan_count' <= scan_count + 1
    /\ scan_count' = scan_count + 1 => scan_time' > now'

C6_OnePerPoll == [][C6_PollStep]_vars

\* the first emission came two or more intervals after the start, so at
\* least one deadline was skipped, and only one snapshot is out
C6_Witness ==
    /\ pc = "pull"
    /\ scan_count = 1
    /\ now >= 2 * seconds_per_scan
    /\ scan_time = now + seconds_per_scan

\* ------------------------------------------------------------------- C7
\* C7: measurement_count and write index never exceed the buffer length,
\* and every slot below measurement_count exists.
C7_CountWithinBuffer ==
    /\ measurement_count <= Len(measurement_buffer)
    /\ measurement_index <= Len(measurement_buffer)
    /\ \A i \in 1..measurement_count : i \in DOMAIN measurement_buffer
    /\ Len(Slice(measurement_buffer, measurement_count)) = measurement_count

\* a shorter rotation was frozen and the buffer is being overwritten
C7_Witness ==
    /\ InLoop
    /\ measurement_count >= 1
    /\ measurement_count < Len(measurement_buffer)
    /\ measurement_index >= 1

\* ------------------------------------------------------------------- C8
\* C8: the sensor is opened only under a configuration the specification
\* calls valid, and every other configuration exits with status 1 with
\* the sensor never opened.
C8_Validated ==
    /\ lidar # "None" => SpecValid(args)
    /\ (pc # "validate" /\ ~SpecValid(args))
          => (pc = "done" /\ exit_status = 1 /\ lidar = "None")

\* ------------------------------------------------------------------- C9
\* C9: a sensor failure ends the run with status 1, an interrupt with
\* status 0, both with the sensor released; after either no snapshot is
\* emitted and the sensor is not pulled again.
C9_Ended ==
    pc = "done" =>
        /\ cause = "Exception" => (exit_status = 1 /\ lidar # "connected")
        /\ cause = "KeyboardInterrupt" =>
               (exit_status = 0 /\ lidar # "connected")

C9_AfterFaultStep ==
    cause \in {"Exception", "KeyboardInterrupt"} =>
        /\ scan_count' = scan_count
        /\ stdout' \in {stdout, Append(stdout, "]")}
        /\ pc' \in {"finally", "done"}

C9_FaultOutcome == []C9_Ended /\ [][C9_AfterFaultStep]_vars

\* the feed failed after a snapshot was emitted
C9_Witness ==
    /\ pc = "done"
    /\ cause = "Exception"
    /\ exit_status = 1
    /\ lidar = "released"
    /\ scan_count >= 1

\* ------------------------------------------------------------------ C10
\* the window test written out, both bounds inclusive
InWindow(a, d) ==
    /\ args.min_angle <= a /\ a <= args.max_angle
    /\ args.min_distance <= d /\ d <= args.max_distance

\* C10 (stream): the filter stage writes the measurement at the write index
\* if its normalized angle and distance are in the window, and otherwise
\* writes nothing.
C10_FilterStep ==
    (pc = "filter" /\ pc' = "emit") =>
        IF InWindow(angle', distance)
        THEN /\ overall_index' = overall_index + 1
             /\ measurement_index' = measurement_index + 1
             /\ measurement_index + 1 \in DOMAIN measurement_buffer'
             /\ measurement_buffer'[measurement_index + 1].angle = angle'
             /\ measurement_buffer'[measurement_index + 1].distance = distance
        ELSE /\ measurement_buffer' = measurement_buffer
             /\ overall_index' = overall_index
             /\ measurement_index' = measurement_index

\* C10 (filter_lidar_scan): the returned list holds every in-window element
\* of the scan as often as the scan does, and nothing else.
C10_ScanResult ==
    pc = "returned" =>
        /\ \A a \in ScanAngles, d \in ScanDistances :
              Count(filtered_data, [distance |-> d, angle |-> a]) =
                 IF InWindow(a, d) THEN Count(lidar_scan, <<15, a, d>>) ELSE 0
        /\ \A i \in 1..Len(filtered_data) :
              /\ filtered_data[i].angle \in ScanAngles
              /\ filtered_data[i].distance \in ScanDistances

\* C10: a measurement is admitted if and only if it is in the window.
C10_AdmittedIffInWindow == []C10_ScanResult /\ [][C10_FilterStep]_vars

\* a measurement on the upper angle bound and the lower distance bound has
\* been written
C10_Witness ==
    /\ pc = "emit"
    /\ angle = args.max_angle
    /\ distance = args.min_distance
    /\ Len(measurement_buffer) = 1
    /\ measurement_buffer[1].angle = angle

\* ------------------------------------------------------------------ C11
\* C11: the normalized angle of every processed measurement, and the angle
\* of every stored measurement, is at least 0 and less than 360.
C11_AngleInRange ==
    /\ pc = "emit" => (0 <= angle /\ angle < 360)
    /\ \A i \in 1..Len(measurement_buffer) :
          /\ 0 <= measurement_buffer[i].angle
          /\ measurement_buffer[i].angle < 360

\* a negative raw angle of more than two turns, spin reversed, has been
\* normalized and stored
C11_Witness ==
    /\ pc = "emit"
    /\ args.spin_reverse
    /\ args.forward_angle = 330
    /\ Len(measurement_buffer) = 1
    /\ measurement_buffer[1].angle = 35

\* ------------------------------------------------------------------ C18
\* C18: with forward_angle 0 the transform yields raw mod 360 without spin
\* reversal and (360 - (raw mod 360)) mod 360 with it (90 gives 270), and
\* reversing the reversed angle again yields raw mod 360.
C18_TransformStep ==
    (pc = "filter" /\ pc' = "emit" /\ args.forward_angle = 0) =>
        IF args.spin_reverse
        THEN /\ angle' = (360 - (angle % 360)) % 360
             /\ angle = 90 => angle' = 270
             /\ (360 - (angle' % 360)) % 360 = angle % 360
        ELSE angle' = angle % 360

C18_ForwardZero == [][C18_TransformStep]_vars

\* raw 90 has been reversed to 270
C18_Witness ==
    /\ pc = "emit"
    /\ args.spin_reverse
    /\ args.forward_angle = 0
    /\ angle = 270
    /\ Len(measurement_buffer) = 1

\* ------------------------------------------------------------------ C12
\* the in-window elements of the scan, in arrival order, as measurements
AdmittedInOrder ==
    LET InW(e) == InWindow(e[2], e[3])
        sel == SelectSeq(lidar_scan, InW)
    IN  [i \in 1..Len(sel) |-> [distance |-> sel[i][3], angle |-> sel[i][2]]]

NonDecreasing(a) ==
    \A i \in 1..Len(a), j \in 1..Len(a) : i < j => a[i].angle <= a[j].angle

\* the elements of a with the given angle, in order
WithAngle(a, x) ==
    LET Same(m) == m.angle = x
    IN  SelectSeq(a, Same)

\* C12 (bisect_right): on a list sorted by angle the index returned splits
\* the list into keys <= x and keys > x.
C12_BisectPost ==
    (pc = "returned" /\ NonDecreasing(filtered_data)) =>
        \A x \in ScanAngles \cup {0, 30} :
            LET i == bisect_right(filtered_data, x, 0, Len(filtered_data))
            IN  /\ 0 <= i /\ i <= Len(filtered_data)
                /\ \A j \in 1..i : filtered_data[j].angle <= x
                /\ \A j \in (i + 1)..Len(filtered_data) :
                      filtered_data[j].angle > x

\* C12 (filter_lidar_scan, sorted): the result is in non-decreasing angle
\* order, measurements of equal angle keep their arrival order, and the
\* result has the measurements of the unsorted result, each as often.
C12_SortedResult ==
    (pc = "returned" /\ sorted) =>
        /\ NonDecreasing(filtered_data)
        /\ Len(filtered_data) = Len(AdmittedInOrder)
        /\ \A x \in ScanAngles :
              WithAngle(filtered_data, x) = WithAngle(AdmittedInOrder, x)
        /\ LET unsorted ==
                  filter_lidar_scan(lidar_scan, Len(lidar_scan), args, FALSE)
           IN  \A x \in ScanAngles, d \in ScanDistances :
                  Count(filtered_data, [distance |-> d, angle |-> x]) =
                     Count(unsorted, [distance |-> d, angle |-> x])

C12_SortedStable == C12_BisectPost /\ C12_SortedResult

\* three admitted measurements arrived out of order, two of them with the
\* same angle, and came back sorted with the earlier of the two first
C12_Witness ==
    /\ pc = "returned"
    /\ sorted
    /\ lidar_scan = << <<15, 20, 100>>, <<15, 10, 100>>, <<15, 10, 50>> >>
    /\ filtered_data = << [distance |-> 100, angle |-> 10],
                          [distance |-> 50, angle |-> 10],
                          [distance |-> 100, angle |-> 20] >>

\* ------------------------------------------------------------------ C13
\* a step of the boundary handling (lines 86-93) on a boundary measurement
BoundaryStep ==
    /\ pc = "boundary" /\ new_scan
    /\ pc' \in {"filter", "finally"}
    /\ cause' # "KeyboardInterrupt"

C13_BoundaryStep ==
    BoundaryStep =>
        /\ measurement_count' = measurement_index
        /\ measurement_index' = 0
        /\ measurement_buffer' = measurement_buffer
        /\ overall_index = 0 => measurement_count' = 0

\* C13: processing a boundary measurement sets measurement_count to the
\* write position reached in the rotation just completed and resets the
\* write position to 0, before any write; a boundary before any admitted
\* measurement leaves measurement_count = 0.
C13_FreezeThenReset == [][C13_BoundaryStep]_vars

\* a boundary has just frozen a rotation of two admitted measurements
C13_Witness ==
    /\ pc = "filter" /\ new_scan
    /\ measurement_count = 2 /\ measurement_index = 0
    /\ Len(measurement_buffer) = 2
    /\ measurement_buffer[2].scan = full_scan_count - 1

\* ------------------------------------------------------------------ C14
\* a step of lines 95-128 that admitted the measurement and wrote it
WriteStep ==
    /\ pc = "filter" /\ pc' = "emit"
    /\ Admits(angle', distance, args)

C14_CapacityStep ==
    /\ Len(measurement_buffer') >= Len(measurement_buffer)
    /\ Len(measurement_buffer') # Len(measurement_buffer) =>
          /\ Len(measurement_buffer') = Len(measurement_buffer) + 1
          /\ WriteStep
          /\ measurement_index = Len(measurement_buffer)
    /\ (WriteStep /\ measurement_index = Len(measurement_buffer)) =>
          Len(measurement_buffer') = Len(measurement_buffer) + 1
    /\ (WriteStep /\ measurement_index < Len(measurement_buffer)) =>
          /\ Len(measurement_buffer') = Len(measurement_buffer)
          /\ measurement_buffer'[measurement_index + 1] =
                Measurement(angle', distance)
          /\ \A i \in 1..Len(measurement_buffer) :
                i # measurement_index + 1 =>
                   measurement_buffer'[i] = measurement_buffer[i]

\* C14: the capacity of the buffer never decreases, grows by exactly one
\* and only when a write lands at write position = capacity, and always
\* equals the largest number of measurements admitted in one rotation so
\* far; a write below the capacity replaces that slot and nothing else.
C14_Capacity ==
    /\ [](Len(measurement_buffer) = longest_rotation)
    /\ [][C14_CapacityStep]_vars

\* the first slot has just been overwritten in a rotation that follows one
\* of two admitted measurements
C14_Witness ==
    /\ pc = "emit"
    /\ Len(measurement_buffer) = 2 /\ longest_rotation = 2
    /\ measurement_index = 1
    /\ measurement_buffer[1].scan = full_scan_count
    /\ measurement_buffer[2].scan = full_scan_count - 1

\* ------------------------------------------------------------------ C15
C15_EmissionStep ==
    scan_count' = scan_count + 1 =>
        /\ Len(snapshot') = measurement_count
        /\ Len(snapshot') <= Max(measurement_index, frozen_count)

\* C15: at every emission the snapshot is no longer than the larger of the
\* write position and the count frozen at the last rotation boundary.
C15_SnapshotBound ==
    /\ [](measurement_count <= Max(measurement_index, frozen_count))
    /\ [][C15_EmissionStep]_vars

\* a snapshot of two measurements was just emitted from a buffer whose
\* in-progress rotation has written one slot, after a rotation of two
C15_Witness ==
    /\ pc = "pull" /\ stdout # <<>> /\ stdout[Len(stdout)] = "scan"
    /\ Len(snapshot) = 2
    /\ measurement_index = 1 /\ frozen_count = 2
    /\ snapshot = measurement_buffer
    /\ snapshot[1].scan = snapshot[2].scan + 1

\* ------------------------------------------------------------------ C16
\* C16: with a feed that keeps yielding and a clock that keeps advancing,
\* the run ends, and for accepted options it ends by the stop condition
\* with more than the requested number of snapshots counted, whatever the
\* filter admits.
C16_ReachesStopped ==
    <>(/\ pc = "done"
       /\ ~HelpNeeded(args) => (cause = "break" /\ scan_count > args.number))

\* the loop was left by the stop condition although no measurement was
\* ever admitted
C16_Witness ==
    /\ pc = "done" /\ cause = "break"
    /\ args.min_angle = 30
    /\ overall_index = 0 /\ measurement_buffer = <<>>
    /\ scan_count = args.number + 1

\* ------------------------------------------------------------------ C17
\* the measurement being processed is one the filter rejects; the angle is
\* the raw one until lines 95-100 have run
Rejected ==
    \/ /\ pc \in {"boundary", "filter"}
       /\ ~InWindow(Transform(angle, args.spin_reverse, args.forward_angle),
                    distance)
    \/ /\ pc = "emit"
       /\ ~InWindow(angle, distance)

\* C17 as stated: processing a rejected measurement leaves the buffer, the
\* write position, the index within the scan and the overall index
\* unchanged, and changes measurement_count only on a boundary measurement.
C17_FrameStep ==
    Rejected =>
        /\ measurement_buffer' = measurement_buffer
        /\ measurement_index' = measurement_index
        /\ full_scan_index' = full_scan_index
        /\ overall_index' = overall_index
        /\ measurement_count' # measurement_count => new_scan

C17_RejectedFrame == [][C17_FrameStep]_vars

C17_FrameOrBoundaryStep ==
    Rejected =>
        /\ measurement_buffer' = measurement_buffer
        /\ overall_index' = overall_index
        /\ \/ UNCHANGED <<measurement_index, full_scan_index,
                          measurement_count>>
           \/ /\ new_scan
              /\ measurement_index' = 0
              /\ full_scan_index' = 0
              /\ measurement_count' = measurement_index

\* C17 amended: processing a rejected measurement leaves the buffer and
\* the overall index unchanged; the write position, the index within the
\* scan and measurement_count change only if the measurement carries the
\* boundary signal, which resets the first two to 0 and freezes the third.
C17_RejectedFrameOrBoundary == [][C17_FrameOrBoundaryStep]_vars

\* a rejected boundary measurement has been processed up to the scheduler
\* check: the write position is back at 0, the stored measurement remains
C17_Witness ==
    /\ pc = "emit" /\ new_scan /\ Rejected
    /\ measurement_index = 0 /\ full_scan_index = 0
    /\ measurement_count = 1 /\ overall_index = 1
    /\ Len(measurement_buffer) = 1

\* ------------------------------------------------------------------ C19
C19_Indices ==
        /\ full_scan_index = measurement_index
        /\ \A i \in 1..Len(measurement_buffer) :
              /\ measurement_buffer[i].index = i - 1
              /\ measurement_buffer[i].overall < overall_index
        /\ \A i \in 1..Len(measurement_buffer),
              j \in 1..Len(measurement_buffer) :
              i # j => measurement_buffer[i].overall #
                          measurement_buffer[j].overall

\* a write stores the overall index reached, which exceeds every stored one
C19_CountStep ==
    (pc = "filter" /\ pc' = "emit") =>
        /\ overall_index' =
              overall_index + (IF InWindow(angle', distance) THEN 1 ELSE 0)
        /\ InWindow(angle', distance) =>
              /\ measurement_buffer'[measurement_index + 1].overall =
                    overall_index
              /\ measurement_buffer'[measurement_index + 1].index =
                    measurement_index

\* C19: the index within the scan always equals the write position, so
\* slot i holds a measurement with index i; the overall index is advanced
\* by one for each admitted measurement and by nothing else, so the overall
\* values stored are distinct and increase in the order of writing.
C19_IndexIsSlot ==
    /\ []C19_Indices
    /\ [][C19_CountStep]_vars
    /\ [][overall_index' # overall_index =>
             (pc = "filter" /\ pc' = "emit")]_vars

\* two slots, the first rewritten in the rotation in progress and newer
\* than the second
C19_Witness ==
    /\ pc = "emit"
    /\ Len(measurement_buffer) = 2 /\ measurement_index = 1
    /\ overall_index = 3
    /\ measurement_buffer[1].overall = 2 /\ measurement_buffer[1].index = 0
    /\ measurement_buffer[2].overall = 1 /\ measurement_buffer[2].index = 1

\* ------------------------------------------------------------------ C20
C20_EmissionStep ==
    scan_count' = scan_count + 1 =>
        /\ \A i \in 1..Len(snapshot') :
              /\ snapshot'[i].scan \in {full_scan_count, full_scan_count - 1}
              /\ i <= measurement_index =>
                    snapshot'[i].scan = full_scan_count
        /\ \A i \in 1..Len(snapshot'), j \in 1..Len(snapshot') :
              (i <= measurement_index /\ measurement_index < j) =>
                 snapshot'[i].overall > snapshot'[j].overall

\* C20: every measurement of an emitted snapshot was written in the
\* rotation in progress or in the one before it; the slots below the write
\* position are of the rotation in progress and newer than the slots from
\* the write position on.
C20_AtMostOneRotationOld == [][C20_EmissionStep]_vars

\* the snapshot just emitted blends the head of the rotation in progress
\* with the tail of the previous one
C20_Witness ==
    /\ pc = "pull" /\ stdout # <<>> /\ stdout[Len(stdout)] = "scan"
    /\ measurement_index = 1
    /\ Len(snapshot) = 2
    /\ snapshot[1].scan = full_scan_count /\ snapshot[1].overall = 2
    /\ snapshot[2].scan = full_scan_count - 1 /\ snapshot[2].overall = 1

TypeOK ==
    /\ pc \in {"validate", "connect", "setup", "pull", "boundary", "filter",
               "emit", "finally", "done", "call", "returned"}
    /\ lidar \in {"None", "connected", "released"}
    /\ exit_status \in {NotExited, 0, 1}
    /\ measurement_count \in Nat
    /\ measurement_index \in Nat
====
